---------------------------- MODULE Spec2Model ----------------------------
(* A model of the shopping cart of src/src/main.rs: the catalog loader     *)
(* (parse, deserialize_percentage), the cart (add, clear, load_from_redis) *)
(* with its Redis hash "shopping_cart", and the pricing of total().        *)
(*                                                                         *)
(* Money: an f64 amount is modelled exactly, as an integer number of       *)
(* 1/10000 units; every catalog price is a whole number of cents, hence a  *)
(* multiple of 100, so the division by 100.0 of a percentage is exact.     *)
EXTENDS Integers, Sequences, FiniteSets, TLC

VARIABLES
    doc,            \* the JSON document handed to parse
    items,          \* the outcome of parse: the catalog, or its failure
    products,       \* ShoppingCart.products: HashMap<String, usize>
    shopping_cart,  \* the Redis hash "shopping_cart": field -> string
    initial_store,  \* history: the Redis hash when the cart was created
    since,          \* history: "new", or "clear" once clear() has run
    hist,           \* history: the add and load calls since creation / the last clear
    ret             \* the outcome of the operation that ran last

vars == <<doc, items, products, shopping_cart, initial_store, since, hist, ret>>

(***************************************************************************)
(* Bounds                                                                  *)
(***************************************************************************)
MaxQty == 3
MaxOps == 2

Quantities == 0..MaxQty
Names == {"Cookie", "Brownie"}

(***************************************************************************)
(* Data model: Item, BulkPricing, Sale, SaleDate, SalePrice                *)
(***************************************************************************)
None == [tag |-> "None"]
BulkPricing(amount, total_price) ==
    [tag |-> "Some", amount |-> amount, total_price |-> total_price]
DayOfWeek(weekday) == [tag |-> "DayOfWeek", weekday |-> weekday]
MonthAndDay(month, day) == [tag |-> "MonthAndDay", month |-> month, day |-> day]
QuantityForFixedPrice(sale_quantity, sale_price) ==
    [tag |-> "QuantityForFixedPrice", sale_quantity |-> sale_quantity,
     sale_price |-> sale_price]
PercentageOff(discount) == [tag |-> "PercentageOff", discount |-> discount]
TwoForOne == [tag |-> "TwoForOne"]
Sale(date, sale_price) == [tag |-> "Some", date |-> date, sale_price |-> sale_price]
Item(name, price, bulk_pricing, sale) ==
    [name |-> name, price |-> price, bulk_pricing |-> bulk_pricing, sale |-> sale]

(***************************************************************************)
(* chrono::NaiveDate: year, month, day; weekday() by Sakamoto's algorithm  *)
(***************************************************************************)
NaiveDate(y, m, d) == [year |-> y, month |-> m, day |-> d]
WeekdayNames == <<"Sun", "Mon", "Tue", "Wed", "Thu", "Fri", "Sat">>
MonthOffsets == <<0, 3, 2, 5, 0, 3, 5, 1, 4, 6, 2, 4>>
weekday(date) ==
    LET y == IF date.month < 3 THEN date.year - 1 ELSE date.year
    IN  WeekdayNames[((y + (y \div 4) - (y \div 100) + (y \div 400)
                        + MonthOffsets[date.month] + date.day) % 7) + 1]

\* 2021-10-01 is a Friday, 2021-10-08 the next one; 2022-10-01 is a Saturday.
Dates == {NaiveDate(2021, 10, 1), NaiveDate(2021, 10, 2),
          NaiveDate(2021, 10, 8), NaiveDate(2022, 10, 1)}

(***************************************************************************)
(* The catalog loader                                                      *)
(***************************************************************************)
\* The mutant of deserialize_percentage: an out-of-range u8 is clamped to 100.
deserialize_percentage_clamping(raw) ==
    IF raw \notin 0..255
    THEN [status |-> "panic", value |-> 0]
    ELSE [status |-> "ok", value |-> IF raw > 100 THEN 100 ELSE raw]

deserialize_percentage(raw) ==
    IF raw \notin 0..255
    THEN [status |-> "panic", value |-> 0]      \* u8::deserialize(..).unwrap()
    ELSE IF raw \in 0..100
         THEN [status |-> "ok", value |-> raw]
         ELSE [status |-> "err", value |-> 0]

IsRawPercentage(raw_item) ==
    /\ raw_item.sale.tag = "Some"
    /\ raw_item.sale.sale_price.tag = "PercentageOff"

\* serde's derived Deserialize for one Item of the "treats" array.
deserialize_item(raw_item) ==
    IF IsRawPercentage(raw_item)
    THEN LET pct == deserialize_percentage(raw_item.sale.sale_price.discount)
         IN  [status |-> pct.status,
              item |-> Item(raw_item.name, raw_item.price, raw_item.bulk_pricing,
                            Sale(raw_item.sale.date, PercentageOff(pct.value)))]
    ELSE [status |-> "ok", item |-> raw_item]

RECURSIVE deserialize_items(_, _, _)
deserialize_items(treats, i, acc) ==
    IF i > Len(treats)
    THEN [status |-> "ok", list |-> acc]
    ELSE LET one == deserialize_item(treats[i])
         IN  IF one.status # "ok"
             THEN [status |-> one.status, list |-> <<>>]
             ELSE deserialize_items(treats, i + 1, Append(acc, one.item))

parse(json_data) ==
    IF ~json_data.has_treats
    THEN [status |-> "panic", list |-> <<>>]     \* as_array().unwrap()
    ELSE deserialize_items(json_data.treats, 1, <<>>)

(***************************************************************************)
(* HashMap<String, usize> and the Redis hash                               *)
(***************************************************************************)
EmptyMap == [k \in {} |-> 0]
insert(map, key, value) ==
    [k \in DOMAIN map \cup {key} |-> IF k = key THEN value ELSE map[k]]

Digits == <<"0", "1", "2", "3", "4", "5", "6", "7", "8", "9">>
DigitValue(c) == (CHOOSE i \in 1..10 : Digits[i] = c) - 1
IsDigit(c) == \E i \in 1..10 : Digits[i] = c

\* ToRedisArgs for usize: the decimal digits.
RECURSIVE to_redis_arg(_)
to_redis_arg(n) ==
    IF n < 10 THEN <<Digits[n + 1]>>
    ELSE Append(to_redis_arg(n \div 10), Digits[(n % 10) + 1])

\* FromRedisValue for usize: parse the decimal digits, or fail.
RECURSIVE parse_digits(_, _, _)
parse_digits(s, i, acc) ==
    IF i > Len(s) THEN acc
    ELSE parse_digits(s, i + 1, 10 * acc + DigitValue(s[i]))
from_redis_value(s) ==
    IF Len(s) = 0 \/ \E i \in 1..Len(s) : ~IsDigit(s[i])
    THEN [ok |-> FALSE, value |-> 0]
    ELSE [ok |-> TRUE, value |-> parse_digits(s, 1, 0)]

hset(hash, field, value) == insert(hash, field, to_redis_arg(value))
hgetall(hash) ==
    IF \E f \in DOMAIN hash : ~from_redis_value(hash[f]).ok
    THEN [ok |-> FALSE, map |-> EmptyMap]
    ELSE [ok |-> TRUE, map |-> [f \in DOMAIN hash |-> from_redis_value(hash[f]).value]]

(***************************************************************************)
(* Pricing: ShoppingCart::apply_sale_price and ShoppingCart::total         *)
(***************************************************************************)
Ok(value) == [status |-> "ok", value |-> value]
Panic(kind) == [status |-> kind, value |-> 0]

\* Integer arithmetic is checked in a debug build and wraps in a release build.
Builds == {"debug", "release"}

\* The mutant of apply_sale_price for TwoForOne: every unit at full price.
apply_sale_price_full_pairs(sale_price, quantity, price, build) ==
    CASE sale_price.tag = "QuantityForFixedPrice" ->
            IF sale_price.sale_quantity = 0 THEN Panic("DivideByZero")
            ELSE Ok((quantity \div sale_price.sale_quantity) * sale_price.sale_price
                    + (quantity % sale_price.sale_quantity) * price)
      [] sale_price.tag = "PercentageOff" ->
            IF sale_price.discount > 100 /\ build = "debug" THEN Panic("Overflow")
            ELSE Ok(((price * ((100 - sale_price.discount) % 256)) \div 100) * quantity)
      [] sale_price.tag = "TwoForOne" -> Ok(quantity * price)

\* The mutant of apply_sale_price for PercentageOff: the percentage is charged,
\* not taken off.
apply_sale_price_charging_percentage(sale_price, quantity, price, build) ==
    CASE sale_price.tag = "QuantityForFixedPrice" ->
            IF sale_price.sale_quantity = 0 THEN Panic("DivideByZero")
            ELSE Ok((quantity \div sale_price.sale_quantity) * sale_price.sale_price
                    + (quantity % sale_price.sale_quantity) * price)
      [] sale_price.tag = "PercentageOff" ->
            Ok(((price * sale_price.discount) \div 100) * quantity)
      [] sale_price.tag = "TwoForOne" ->
            Ok((quantity \div 2) * price + (quantity % 2) * price)

apply_sale_price(sale_price, quantity, price, build) ==
    CASE sale_price.tag = "QuantityForFixedPrice" ->
            IF sale_price.sale_quantity = 0
            THEN Panic("DivideByZero")          \* quantity / 0
            ELSE LET bulk_count == quantity \div sale_price.sale_quantity
                     remainder == quantity % sale_price.sale_quantity
                 IN  Ok(bulk_count * sale_price.sale_price + remainder * price)
      [] sale_price.tag = "PercentageOff" ->
            \* 100 - discount is a u8 subtraction
            IF sale_price.discount > 100 /\ build = "debug"
            THEN Panic("Overflow")
            ELSE LET discounted_price ==
                         (price * ((100 - sale_price.discount) % 256)) \div 100
                 IN  Ok(discounted_price * quantity)
      [] sale_price.tag = "TwoForOne" ->
            LET pairs == quantity \div 2
                remainder == quantity % 2
            IN  Ok(pairs * price + remainder * price)

\* The guards of the two SaleDate arms of total's match.
sale_date_matches(sale_date, date) ==
    CASE sale_date.tag = "DayOfWeek" -> weekday(date) = sale_date.weekday
      [] sale_date.tag = "MonthAndDay" ->
            date.month = sale_date.month /\ date.day = sale_date.day

\* The mutant of line_amount: a bulk rule whose threshold is met is tried
\* before the sale.
line_amount_bulk_first(item, quantity, date, build) ==
    IF item.bulk_pricing.tag = "Some" /\ item.bulk_pricing.amount > 0
       /\ quantity >= item.bulk_pricing.amount
    THEN Ok((quantity \div item.bulk_pricing.amount) * item.bulk_pricing.total_price
            + (quantity % item.bulk_pricing.amount) * item.price)
    ELSE IF item.sale.tag = "Some" /\ sale_date_matches(item.sale.date, date)
         THEN apply_sale_price(item.sale.sale_price, quantity, item.price, build)
         ELSE Ok(quantity * item.price)

\* The amount total() adds for one cart entry: the match on item.sale.
line_amount(item, quantity, date, build) ==
    IF item.sale.tag = "Some"
    THEN IF sale_date_matches(item.sale.date, date)
         THEN apply_sale_price(item.sale.sale_price, quantity, item.price, build)
         ELSE Ok(quantity * item.price)
    ELSE IF item.bulk_pricing.tag = "Some" /\ quantity >= item.bulk_pricing.amount
         THEN IF item.bulk_pricing.amount = 0
              THEN Panic("DivideByZero")        \* quantity / 0
              ELSE LET bulk_count == quantity \div item.bulk_pricing.amount
                       remainder == quantity % item.bulk_pricing.amount
                   IN  Ok(bulk_count * item.bulk_pricing.total_price
                          + remainder * item.price)
         ELSE Ok(quantity * item.price)

\* items.iter().find(|item| item.name == *product): the first match, 0 for None.
find(list, product) ==
    IF \E i \in 1..Len(list) : list[i].name = product
    THEN CHOOSE i \in 1..Len(list) :
            /\ list[i].name = product
            /\ \A j \in 1..(i - 1) : list[j].name # product
    ELSE 0

\* The orders in which a HashMap may yield its keys.
Orders(map) ==
    {o \in [1..Cardinality(DOMAIN map) -> DOMAIN map] :
        \A i, j \in DOMAIN o : i # j => o[i] # o[j]}

\* The loop of total(): `lines` keeps the amount of every entry visited.
RECURSIVE total_loop(_, _, _, _, _, _, _, _)
total_loop(map, list, date, build, order, i, sum, lines) ==
    IF i > Cardinality(DOMAIN map)
    THEN [status |-> "ok", value |-> sum, lines |-> lines]
    ELSE LET product == order[i]
             at == find(list, product)
         IN  IF at = 0
             THEN [status |-> "LookupFailure", value |-> 0, lines |-> lines]
             ELSE LET line == line_amount(list[at], map[product], date, build)
                  IN  IF line.status # "ok"
                      THEN [status |-> line.status, value |-> 0,
                            lines |-> insert(lines, product, line)]
                      ELSE total_loop(map, list, date, build, order, i + 1,
                                      sum + line.value,
                                      insert(lines, product, line))

total(map, list, date, build, order) ==
    total_loop(map, list, date, build, order, 1, 0, EmptyMap)

(***************************************************************************)
(* Inputs: the documents, the Redis hash found at creation                 *)
(***************************************************************************)
\* Catalog prices, in cents: 1.25 a cookie, 2.00 a brownie, two cookies for
\* 2.00 in bulk and for 1.50 on sale.
Cents(n) == 100 * n
CookiePrice == Cents(125)
BrowniePrice == Cents(200)
CookieBulkPrice == Cents(200)
CookieSalePrice == Cents(150)

Document(treats) == [has_treats |-> TRUE, treats |-> treats]
NoTreats == [has_treats |-> FALSE, treats |-> <<>>]

RawPercentages == {-1, 0, 25, 100, 101, 256}
SaleDates == {DayOfWeek("Fri"), MonthAndDay(10, 1)}
RawSalePrices ==
    {QuantityForFixedPrice(0, CookieSalePrice),
     QuantityForFixedPrice(2, CookieSalePrice), TwoForOne}
    \cup {PercentageOff(raw) : raw \in RawPercentages}

\* One-item catalogs: every rule shape on "Cookie".
PricingDocs ==
    {Document(<<Item("Cookie", CookiePrice, bulk, None)>>) :
        bulk \in {None, BulkPricing(0, CookieBulkPrice),
                  BulkPricing(2, CookieBulkPrice)}}
    \cup {Document(<<Item("Cookie", CookiePrice, bulk, Sale(date, sale_price))>>) :
            bulk \in {None, BulkPricing(2, CookieBulkPrice)},
            date \in SaleDates, sale_price \in RawSalePrices}

\* Catalogs for the cart: complete, incomplete, with a repeated name, absent.
CartDocs ==
    {Document(<<Item("Cookie", CookiePrice, BulkPricing(2, CookieBulkPrice), None),
                Item("Brownie", BrowniePrice, None, None)>>),
     Document(<<Item("Cookie", CookiePrice, BulkPricing(0, CookieBulkPrice), None)>>),
     Document(<<Item("Brownie", BrowniePrice, None, Sale(DayOfWeek("Fri"), TwoForOne)),
                Item("Brownie", CookiePrice, None, None)>>),
     NoTreats}

\* What the hash "shopping_cart" may hold before the cart exists.
InitStores ==
    {EmptyMap,
     insert(EmptyMap, "Brownie", <<"2">>),
     insert(EmptyMap, "Cookie", <<"x">>)}

(***************************************************************************)
(* The state machine                                                       *)
(***************************************************************************)
Done(op) == [op |-> op, status |-> "ok"]
Failed(op, kind) == [op |-> op, status |-> kind]

\* ShoppingCart::new(): an empty map; the store is neither read nor written.
New(docs, stores) ==
    /\ doc \in docs
    /\ items = [status |-> "unparsed", list |-> <<>>]
    /\ products = EmptyMap
    /\ shopping_cart \in stores
    /\ initial_store = shopping_cart
    /\ since = "new"
    /\ hist = <<>>
    /\ ret = Done("new")

Init == New(CartDocs, InitStores)
InitPricing == New(PricingDocs, {EmptyMap})

\* A failed parse or a panic ends the program.
Running == items.status = "ok" /\ ret.status = "ok"
CanRecord == Len(hist) < MaxOps

Parse ==
    /\ items.status = "unparsed"
    /\ items' = parse(doc)
    /\ ret' = Failed("parse", items'.status)
    /\ UNCHANGED <<doc, products, shopping_cart, initial_store, since, hist>>

\* The mutant of add: the quantity is added to the one already there.
add_accumulating(product, quantity) ==
    /\ Running
    /\ products' = insert(products, product,
                          IF product \in DOMAIN products
                          THEN products[product] + quantity ELSE quantity)
    /\ shopping_cart' = hset(shopping_cart, product, products'[product])
    /\ hist' = Append(hist, [op |-> "add", product |-> product, quantity |-> quantity])
    /\ ret' = Done("add")
    /\ UNCHANGED <<doc, items, initial_store, since>>

\* The mutant of add: the HSET is left out.
add_without_hset(product, quantity) ==
    /\ Running
    /\ products' = insert(products, product, quantity)
    /\ hist' = Append(hist, [op |-> "add", product |-> product, quantity |-> quantity])
    /\ ret' = Done("add")
    /\ UNCHANGED <<doc, items, shopping_cart, initial_store, since>>

add(product, quantity) ==
    /\ Running
    /\ products' = insert(products, product, quantity)
    /\ shopping_cart' = hset(shopping_cart, product, quantity)
    /\ hist' = Append(hist, [op |-> "add", product |-> product, quantity |-> quantity])
    /\ ret' = Done("add")
    /\ UNCHANGED <<doc, items, initial_store, since>>

\* The mutant of clear: only the Redis hash is deleted.
clear_store_only ==
    /\ Running
    /\ shopping_cart' = EmptyMap
    /\ since' = "clear"
    /\ hist' = <<>>
    /\ ret' = Done("clear")
    /\ UNCHANGED <<doc, items, products, initial_store>>

clear ==
    /\ Running
    /\ products' = EmptyMap
    /\ shopping_cart' = EmptyMap                \* DEL shopping_cart
    /\ since' = "clear"
    /\ hist' = <<>>
    /\ ret' = Done("clear")
    /\ UNCHANGED <<doc, items, initial_store>>

load_from_redis ==
    /\ Running
    /\ LET loaded == hgetall(shopping_cart)
       IN  IF loaded.ok
           THEN /\ products' = loaded.map
                /\ hist' = Append(hist, [op |-> "load_from_redis"])
                /\ ret' = Done("load_from_redis")
           ELSE /\ ret' = Failed("load_from_redis", "StoreError")   \* expect()
                /\ UNCHANGED <<products, hist>>
    /\ UNCHANGED <<doc, items, shopping_cart, initial_store, since>>

Total(date, build, order) ==
    /\ Running
    /\ LET result == total(products, items.list, date, build, order)
       IN  ret' = [op |-> "total", status |-> result.status, value |-> result.value,
                   date |-> date, lines |-> result.lines]
    /\ UNCHANGED <<doc, items, products, shopping_cart, initial_store, since, hist>>

TotalCall == \E date \in Dates, build \in Builds, order \in Orders(products) :
                Total(date, build, order)

Next ==
    \/ Parse
    \/ \E product \in Names, quantity \in Quantities :
            CanRecord /\ add(product, quantity)
    \/ clear
    \/ CanRecord /\ load_from_redis
    \/ TotalCall

\* One-item catalogs need one cart entry.
NextPricing ==
    \/ Parse
    \/ \E quantity \in Quantities : CanRecord /\ add("Cookie", quantity)
    \/ clear
    \/ CanRecord /\ load_from_redis
    \/ TotalCall

Spec == Init /\ [][Next]_vars
SpecPricing == InitPricing /\ [][NextPricing]_vars

(***************************************************************************)
(* Properties                                                              *)
(***************************************************************************)
\* The catalog item total() resolves a cart entry to, its quantity, its line.
ItemOf(product) == items.list[find(items.list, product)]
Priced == IF ret.op = "total" THEN DOMAIN ret.lines ELSE {}
SaleActive(item, date) ==
    /\ item.sale.tag = "Some"
    /\ \/ /\ item.sale.date.tag = "DayOfWeek"
          /\ item.sale.date.weekday = weekday(date)
       \/ /\ item.sale.date.tag = "MonthAndDay"
          /\ item.sale.date.month = date.month
          /\ item.sale.date.day = date.day
HasBulk(item) == item.bulk_pricing.tag = "Some" /\ item.bulk_pricing.amount >= 1
BulkFormula(item, q) ==
    (q \div item.bulk_pricing.amount) * item.bulk_pricing.total_price
    + (q % item.bulk_pricing.amount) * item.price
ActiveDiscount(product, tag) ==
    /\ SaleActive(ItemOf(product), ret.date)
    /\ ItemOf(product).sale.sale_price.tag = tag

\* C1: an item with a bulk rule (n, p) and no sale matching the date (a sale
\* that does not match included) is charged (q div n) * p + (q mod n) * price.
C1_BulkWithoutMatchingSale ==
    \A product \in Priced :
        (HasBulk(ItemOf(product)) /\ ~SaleActive(ItemOf(product), ret.date))
        => ret.lines[product] = Ok(BulkFormula(ItemOf(product), products[product]))

\* C2: when an item has a sale and a bulk rule and the sale matches the date,
\* the line is the sale's discount applied to the quantity; the bulk rule has
\* no part in it.
C2_SaleSupersedesBulk ==
    \A product \in Priced :
        (HasBulk(ItemOf(product)) /\ SaleActive(ItemOf(product), ret.date))
        => ret.lines[product] =
              apply_sale_price(ItemOf(product).sale.sale_price, products[product],
                               ItemOf(product).price, "debug")

C2_Witness ==
    \E product \in Priced :
        /\ HasBulk(ItemOf(product)) /\ SaleActive(ItemOf(product), ret.date)
        /\ products[product] >= ItemOf(product).bulk_pricing.amount
        /\ ret.lines[product].status = "ok"
        /\ ret.lines[product].value # BulkFormula(ItemOf(product), products[product])

\* C3 as stated: an active TwoForOne sale charges q * price.
C3_TwoForOneFullPrice ==
    \A product \in Priced :
        ActiveDiscount(product, "TwoForOne")
        => ret.lines[product] = Ok(products[product] * ItemOf(product).price)

\* C3 as amended: an active TwoForOne sale charges one price for each pair and
\* one for a leftover unit, (q div 2 + q mod 2) * price.
C3_TwoForOnePairs ==
    \A product \in Priced :
        ActiveDiscount(product, "TwoForOne")
        => ret.lines[product] =
              Ok(((products[product] \div 2) + (products[product] % 2))
                 * ItemOf(product).price)

C3_Witness ==
    \E product \in Priced :
        /\ ActiveDiscount(product, "TwoForOne")
        /\ products[product] = 3
        /\ ret.lines[product] = Ok(2 * ItemOf(product).price)

\* C4: with only add and clear called, the cart maps exactly the names added
\* since the last clear (or creation), each to the quantity of its last add.
Adds == {i \in 1..Len(hist) : hist[i].op = "add"}
LastAdd(product) ==
    CHOOSE i \in Adds :
        /\ hist[i].product = product
        /\ \A j \in Adds : hist[j].product = product => j <= i
C4_LastWriteWins ==
    (\A i \in 1..Len(hist) : hist[i].op = "add")
    => /\ DOMAIN products = {hist[i].product : i \in Adds}
       /\ \A product \in DOMAIN products :
             products[product] = hist[LastAdd(product)].quantity

C4_Witness ==
    /\ since = "clear"
    /\ Len(hist) = 2
    /\ hist[1].op = "add" /\ hist[2].op = "add"
    /\ hist[1].product = hist[2].product
    /\ hist[1].quantity = 3 /\ hist[2].quantity = 1
    /\ products = insert(EmptyMap, hist[1].product, 1)

\* C5: total() is 0 for a new cart and for a cart last changed by clear().
C5_EmptyCartTotalsZero ==
    (ret.op = "total" /\ hist = <<>>) => (ret.status = "ok" /\ ret.value = 0)

C5_Witness ==
    /\ ret.op = "total" /\ ret.status = "ok" /\ ret.value = 0
    /\ since = "clear" /\ hist = <<>>
    /\ Len(items.list) > 0

\* C6: with a cart entry whose name no catalog item has, total() aborts with
\* a lookup failure, whatever the other entries and the order of the visit.
C6_UnknownNameIsLookupFailure ==
    (ret.op = "total" /\ \E product \in DOMAIN products : find(items.list, product) = 0)
    => ret.status = "LookupFailure"

\* C7: a PercentageOff outside [0, 100] is rejected when the catalog is
\* loaded: the load fails, no catalog that total() prices holds one, and an
\* accepted percentage is the one the document gave.
RawDiscounts ==
    {doc.treats[i].sale.sale_price.discount :
        i \in {j \in 1..Len(doc.treats) : IsRawPercentage(doc.treats[j])}}
C7_InvalidPercentageRejected ==
    /\ (items.status # "unparsed" /\ \E raw \in RawDiscounts : raw \notin 0..100)
       => items.status \in {"err", "panic"}
    /\ \A i \in 1..Len(items.list) :
          (items.list[i].sale.tag = "Some"
           /\ items.list[i].sale.sale_price.tag = "PercentageOff")
          => /\ items.list[i].sale.sale_price.discount \in 0..100
             /\ items.list[i].sale.sale_price.discount
                   = doc.treats[i].sale.sale_price.discount

C7_Witness ==
    /\ 101 \in RawDiscounts
    /\ items.status = "err"
    /\ ret = Failed("parse", "err")

\* C8: an active PercentageOff(pct) sale charges q * price * (100 - pct) / 100:
\* q * price for pct = 0, nothing for pct = 100.
C8_PercentageOff ==
    \A product \in Priced :
        ActiveDiscount(product, "PercentageOff")
        => LET pct == ItemOf(product).sale.sale_price.discount
               full == products[product] * ItemOf(product).price
           IN  /\ ret.lines[product].status = "ok"
               /\ ret.lines[product].value * 100 = full * (100 - pct)
               /\ pct = 0 => ret.lines[product].value = full
               /\ pct = 100 => ret.lines[product].value = 0

C8_Witness ==
    \E product \in Priced :
        /\ ActiveDiscount(product, "PercentageOff")
        /\ ItemOf(product).sale.sale_price.discount = 25
        /\ products[product] = 3
        /\ ret.lines[product] = Ok(28125)

\* C9: for a loaded catalog and a cart whose names are all in it, total()
\* returns an amount: no division fails.
C9_PricingIsTotal ==
    (ret.op = "total" /\ \A product \in DOMAIN products : find(items.list, product) # 0)
    => ret.status = "ok"

\* C10 as stated: after every add or clear the Redis hash, read back, is the
\* in-memory map, whatever the hash held when the cart was created.
ReadBack == hgetall(shopping_cart)
C10_StoreMirrorsCart ==
    (ret.op \in {"add", "clear"} /\ ReadBack.ok) => ReadBack.map = products

\* C10 as amended: it is so when the hash was empty at creation, or once
\* clear() has run.
C10_StoreMirrorsCartOnceEmptied ==
    (ret.op \in {"add", "clear"} /\ (initial_store = EmptyMap \/ since = "clear"))
    => (ReadBack.ok /\ ReadBack.map = products)

C10_Witness ==
    /\ ret.op = "add"
    /\ since = "clear"
    /\ initial_store # EmptyMap
    /\ Cardinality(DOMAIN products) = 2
    /\ ReadBack.ok /\ ReadBack.map = products

=============================================================================
